---- MODULE Spec2Model ----
(***************************************************************************)
(* The /resources router: add, update and delete of resource rows whose    *)
(* files live in a remote blob store (Cloudinary, folder "resources").     *)
(* The repository holds two variants of the router:                        *)
(*   "routes"  = src/routes/resources.js (no public_id column, no MIME     *)
(*               filter, blob identifier derived from file_url)            *)
(*   "part000" = src/unnamed/part_000    (public_id column, MIME filter)   *)
(* A request is a sequence of steps, one per await of its handler; steps   *)
(* of different requests interleave freely.                                *)
(***************************************************************************)
EXTENDS Integers, Sequences, FiniteSets, TLC

VARIABLES variant, table, nextId, store, nextBlob, req

vars == <<variant, table, nextId, store, nextBlob, req>>

(* ---------------------------- bounds ----------------------------------- *)
MaxReq == 2

Reqs == 1..MaxReq
\* ids a request can name: the seeded row, and the id the first add creates
TargetIds == {1, 2}

(* ------------------------- program constants --------------------------- *)
Kilo == 1024

Variants == {"routes", "part000"}

AllowedMimes ==
  {"application/pdf", "application/msword",
   "application/vnd.openxmlformats-officedocument.wordprocessingml.document"}

AllowedFormats == {"pdf", "doc", "docx"}

Folder == "resources"

FolderSegment == "/" \o Folder \o "/"

UrlBase == "https://res.cloudinary.com/demo/raw/upload/v1"

(* ------------------------------ values --------------------------------- *)
\* file.size absent (undefined)
Missing == 0 - 1

NoRow ==
  [id |-> 0, type |-> "", title |-> "", description |-> "", size |-> "",
   file_url |-> <<>>, public_id |-> ""]

\* req.file undefined
NoFile == [path |-> <<>>, filename |-> "", size |-> Missing]

\* no file part in the multipart body
NoUpload == [mimetype |-> "", format |-> "", bytes |-> Missing]

NoBody == [type |-> "", title |-> "", description |-> ""]

Bodies == {[type |-> "guide", title |-> "T1", description |-> "D1"]}

SeedBody == [type |-> "form", title |-> "T0", description |-> "D0"]

\* file parts the clients of the concurrent specification send: a PDF, a
\* text file, and a PDF-named file sent with a text MIME type
Uploads ==
  {[mimetype |-> "application/pdf", format |-> "pdf", bytes |-> Kilo * Kilo],
   [mimetype |-> "text/plain", format |-> "txt", bytes |-> Kilo * Kilo],
   [mimetype |-> "text/plain", format |-> "pdf", bytes |-> Kilo * Kilo]}

\* byte counts the store reports for an upload (Missing: none reported)
SizedByteCounts ==
  {Missing, 0, 1, 5242, 5243, 128 * Kilo, Kilo * Kilo, 1536 * Kilo,
   10 * Kilo * Kilo}

SizedUploads ==
  [mimetype : {"application/pdf"}, format : {"pdf"}, bytes : SizedByteCounts]

(* --------------------------- pure helpers ------------------------------ *)
\* Number.prototype.toFixed(2) of n / 1024 / 1024 (the quotient is exact in
\* a double, so toFixed rounds the exact value, ties upwards)
ToFixed2(n) ==
  LET h == (n * 200 + Kilo * Kilo) \div (2 * Kilo * Kilo)
  IN  ToString(h \div 100) \o "." \o ToString((h % 100) \div 10)
        \o ToString(h % 10)

\* the size column computed from file.size
SizeString(v, bytes) ==
  IF v = "routes"
    THEN (IF bytes = Missing THEN "NaN" ELSE ToFixed2(bytes)) \o " MB"
    ELSE IF bytes # Missing /\ bytes # 0
           THEN ToFixed2(bytes) \o " MB"
           ELSE "Unknown size"

\* multer fileFilter; the routes variant configures none
FileFilter(v, up) == v = "routes" \/ up.mimetype \in AllowedMimes

\* the store's own allowed_formats check; only the routes variant sets it
StoreAccepts(v, up) == v = "part000" \/ up.format \in AllowedFormats

BlobName(n) == "b" \o ToString(n)

BlobKey(publicId) == Folder \o "/" \o publicId

SecureUrl(name, format) == <<UrlBase, FolderSegment, name, ".", format>>

\* first index of token t in s, 0 when absent
RECURSIVE IndexFrom(_, _, _)
IndexFrom(s, t, i) ==
  IF i > Len(s) THEN 0
  ELSE IF s[i] = t THEN i ELSE IndexFrom(s, t, i + 1)

\* s.split(t)[0]
SplitFirst(s, t) ==
  LET i == IndexFrom(s, t, 1)
  IN  IF i = 0 THEN s ELSE SubSeq(s, 1, i - 1)

\* s.split(t)[1] is defined
HasSecond(s, t) == IndexFrom(s, t, 1) # 0

\* s.split(t)[1]
SplitSecond(s, t) ==
  LET i == IndexFrom(s, t, 1)
  IN  SplitFirst(SubSeq(s, i + 1, Len(s)), t)

RECURSIVE Join(_)
Join(s) == IF s = <<>> THEN "" ELSE Head(s) \o Join(Tail(s))

\* file_url.split("/resources/")[1].split(".")[0]
DerivedPublicId(url) == Join(SplitFirst(SplitSecond(url, FolderSegment), "."))

\* the handler's test guarding the destroy call
HasOldBlob(v, row) ==
  IF v = "routes" THEN row.file_url # <<>> ELSE row.public_id # ""

\* evaluating the destroy argument throws (split(...)[1] is undefined)
DeriveThrows(v, row) ==
  v = "routes" /\ row.file_url # <<>> /\ ~HasSecond(row.file_url, FolderSegment)

\* the identifier passed to cloudinary.uploader.destroy
DestroyKey(v, row) ==
  IF v = "routes"
    THEN BlobKey(DerivedPublicId(row.file_url))
    ELSE BlobKey(row.public_id)

\* row written by INSERT
InsertedRow(v, id, body, file) ==
  [id |-> id, type |-> body.type, title |-> body.title,
   description |-> body.description,
   size |-> SizeString(v, file.size), file_url |-> file.path,
   public_id |-> IF v = "routes" THEN "" ELSE file.filename]

\* UpdatedRow with the file_url and public_id assignments left out of the
\* SET list
UpdatedRowKeepsUrl(v, old, body, file) ==
  IF file = NoFile
    THEN [old EXCEPT !.type = body.type, !.title = body.title,
                     !.description = body.description]
    ELSE [old EXCEPT !.type = body.type, !.title = body.title,
                     !.description = body.description,
                     !.size = SizeString(v, file.size)]

\* UpdatedRow with the size assignment made whether or not a file came
UpdatedRowAlwaysSize(v, old, body, file) ==
  [old EXCEPT !.type = body.type, !.title = body.title,
              !.description = body.description,
              !.size = SizeString(v, file.size),
              !.file_url = IF file = NoFile THEN @ ELSE file.path,
              !.public_id = IF v = "routes" \/ file = NoFile
                              THEN @ ELSE file.filename]

\* row written by the dynamically built UPDATE
UpdatedRow(v, old, body, file) ==
  IF file = NoFile
    THEN [old EXCEPT !.type = body.type, !.title = body.title,
                     !.description = body.description]
    ELSE [old EXCEPT !.type = body.type, !.title = body.title,
                     !.description = body.description,
                     !.size = SizeString(v, file.size),
                     !.file_url = file.path,
                     !.public_id = IF v = "routes" THEN @ ELSE file.filename]

(* ------------------------------ state ---------------------------------- *)
IdleReq ==
  [kind |-> "none", pc |-> "idle", id |-> 0, body |-> NoBody,
   upload |-> NoUpload, file |-> NoFile, existing |-> NoRow,
   existed |-> FALSE, status |-> 0, row |-> NoRow, message |-> "",
   calls |-> <<>>]

\* the row the table holds at start: inserted by add; under part000 it may
\* also be a row written before the public_id column was filled
SeedRows(v) ==
  {[id |-> 1, type |-> SeedBody.type, title |-> SeedBody.title,
    description |-> SeedBody.description, size |-> "1.00 MB",
    file_url |-> SecureUrl(BlobName(0), "pdf"), public_id |-> p] :
     p \in IF v = "routes" THEN {""} ELSE {BlobName(0), ""}}

Init ==
  /\ variant \in Variants
  /\ \E seed \in SeedRows(variant) : table = [i \in {1} |-> seed]
  /\ nextId = 2
  /\ store = {BlobKey(BlobName(0))}
  /\ nextBlob = 1
  /\ req = [r \in Reqs |-> IdleReq]

(* ----------------------------- responses ------------------------------- *)
Respond(r, status, row, message, call) ==
  req' = [req EXCEPT ![r].pc = "done", ![r].status = status, ![r].row = row,
                     ![r].message = message,
                     ![r].calls = IF call = "" THEN @ ELSE Append(@, call)]

\* catch (err) { res.status(500).json({ error: "Server error" }) }
ServerError(r, call) == Respond(r, 500, NoRow, "Server error", call)

Goto(r, pc, call) ==
  req' = [req EXCEPT ![r].pc = pc, ![r].calls = Append(@, call)]

(* ------------------------------ requests ------------------------------- *)
\* a client sends a request; files is the set of file parts it may attach
StartWith(r, files) ==
  /\ req[r].pc = "idle"
  /\ \A q \in Reqs : q < r => req[q].pc # "idle"
  /\ \E kind \in {"add", "update", "delete"}, id \in TargetIds,
        body \in Bodies, up \in files \cup {NoUpload} :
       /\ kind = "add" => id = 1
       /\ kind = "delete" => up = NoUpload
       /\ req' = [req EXCEPT ![r] =
            [IdleReq EXCEPT
               !.kind = kind,
               !.pc = IF kind = "delete" THEN "select" ELSE "mw",
               !.id = IF kind = "add" THEN 0 ELSE id,
               !.body = IF kind = "delete" THEN NoBody ELSE body,
               !.upload = up,
               !.existed = kind # "add" /\ id \in DOMAIN table]]
  /\ UNCHANGED <<variant, table, nextId, store, nextBlob>>

\* upload.single("file"): the file part, if any, is filtered and then
\* streamed to the store before the handler body runs
UploadSingle(r, nofile, next) ==
  LET up == req[r].upload IN
  IF up = NoUpload
    THEN nofile /\ UNCHANGED <<store, nextBlob>>
  ELSE IF ~FileFilter(variant, up)
    THEN ServerError(r, "filter_rejected") /\ UNCHANGED <<store, nextBlob>>
  ELSE \E ok \in BOOLEAN :
         IF ok /\ StoreAccepts(variant, up)
           THEN /\ store' = store \cup {BlobKey(BlobName(nextBlob))}
                /\ nextBlob' = nextBlob + 1
                /\ req' = [req EXCEPT
                     ![r].pc = next,
                     ![r].calls = Append(@, "put"),
                     ![r].file = [path |-> SecureUrl(BlobName(nextBlob), up.format),
                                  filename |-> BlobName(nextBlob),
                                  size |-> up.bytes]]
           ELSE ServerError(r, "put_failed") /\ UNCHANGED <<store, nextBlob>>

AddMiddleware(r) ==
  /\ req[r].kind = "add" /\ req[r].pc = "mw"
  /\ UploadSingle(r, Respond(r, 400, NoRow, "File is required", ""), "stmt")
  /\ UNCHANGED <<variant, table, nextId>>

AddInsert(r) ==
  /\ req[r].kind = "add" /\ req[r].pc = "stmt"
  /\ \E ok \in BOOLEAN :
       IF ok
         THEN LET new == InsertedRow(variant, nextId, req[r].body, req[r].file)
              IN  /\ table' = [i \in DOMAIN table \cup {nextId} |->
                                 IF i = nextId THEN new ELSE table[i]]
                  /\ nextId' = nextId + 1
                  /\ Respond(r, 200, new, "", "insert")
         ELSE /\ ServerError(r, "insert_failed")
              /\ UNCHANGED <<table, nextId>>
  /\ UNCHANGED <<variant, store, nextBlob>>

UpdateMiddleware(r) ==
  /\ req[r].kind = "update" /\ req[r].pc = "mw"
  /\ UploadSingle(r, req' = [req EXCEPT ![r].pc = "select"], "select")
  /\ UNCHANGED <<variant, table, nextId>>

\* SELECT * FROM resources WHERE id=$1, then the code up to the next await
SelectRow(r, needsBlobStep) ==
  \E ok \in BOOLEAN :
    IF ~ok THEN ServerError(r, "select_failed")
    ELSE IF req[r].id \notin DOMAIN table
      THEN Respond(r, 404, NoRow, "Resource not found", "select")
    ELSE LET row == table[req[r].id] IN
         IF needsBlobStep /\ DeriveThrows(variant, row)
           THEN ServerError(r, "select")
           ELSE req' = [req EXCEPT
                  ![r].existing = row,
                  ![r].calls = Append(@, "select"),
                  ![r].pc = IF needsBlobStep /\ HasOldBlob(variant, row)
                              THEN "destroy" ELSE "stmt"]

UpdateSelect(r) ==
  /\ req[r].kind = "update" /\ req[r].pc = "select"
  /\ SelectRow(r, req[r].file # NoFile)
  /\ UNCHANGED <<variant, table, nextId, store, nextBlob>>

\* DestroyBlob with a failed destroy call swallowed: the handler goes on
DestroyBlobSwallowed(r) ==
  \E ok \in BOOLEAN :
    IF ok
      THEN /\ store' = store \ {DestroyKey(variant, req[r].existing)}
           /\ Goto(r, "stmt", "destroy")
      ELSE /\ Goto(r, "stmt", "destroy_failed")
           /\ UNCHANGED store

\* cloudinary.uploader.destroy(key, {resource_type: "raw"}); a key the
\* store does not hold is a no-op
DestroyBlob(r) ==
  \E ok \in BOOLEAN :
    IF ok
      THEN /\ store' = store \ {DestroyKey(variant, req[r].existing)}
           /\ Goto(r, "stmt", "destroy")
      ELSE /\ ServerError(r, "destroy_failed")
           /\ UNCHANGED store

UpdateDestroy(r) ==
  /\ req[r].kind = "update" /\ req[r].pc = "destroy"
  /\ DestroyBlob(r)
  /\ UNCHANGED <<variant, table, nextId, nextBlob>>

UpdateStmt(r) ==
  /\ req[r].kind = "update" /\ req[r].pc = "stmt"
  /\ \E ok \in BOOLEAN :
       IF ~ok THEN ServerError(r, "update_failed") /\ UNCHANGED table
       ELSE IF req[r].id \in DOMAIN table
         THEN LET new == UpdatedRow(variant, table[req[r].id], req[r].body,
                                    req[r].file)
              IN  /\ table' = [table EXCEPT ![req[r].id] = new]
                  /\ Respond(r, 200, new, "", "update")
         ELSE /\ UNCHANGED table
              /\ Respond(r, 200, NoRow, "", "update")
  /\ UNCHANGED <<variant, nextId, store, nextBlob>>

DeleteSelect(r) ==
  /\ req[r].kind = "delete" /\ req[r].pc = "select"
  /\ SelectRow(r, TRUE)
  /\ UNCHANGED <<variant, table, nextId, store, nextBlob>>

DeleteDestroy(r) ==
  /\ req[r].kind = "delete" /\ req[r].pc = "destroy"
  /\ DestroyBlob(r)
  /\ UNCHANGED <<variant, table, nextId, nextBlob>>

DeleteStmt(r) ==
  /\ req[r].kind = "delete" /\ req[r].pc = "stmt"
  /\ \E ok \in BOOLEAN :
       IF ok
         THEN /\ table' = [i \in DOMAIN table \ {req[r].id} |-> table[i]]
              /\ Respond(r, 200, NoRow, "Resource deleted", "delete")
         ELSE /\ ServerError(r, "delete_failed")
              /\ UNCHANGED table
  /\ UNCHANGED <<variant, nextId, store, nextBlob>>

Start(r) == StartWith(r, Uploads)

StartSized(r) == StartWith(r, SizedUploads)

Next ==
  \E r \in Reqs :
    \/ Start(r)
    \/ AddMiddleware(r)
    \/ AddInsert(r)
    \/ UpdateMiddleware(r)
    \/ UpdateSelect(r)
    \/ UpdateDestroy(r)
    \/ UpdateStmt(r)
    \/ DeleteSelect(r)
    \/ DeleteDestroy(r)
    \/ DeleteStmt(r)

Spec == Init /\ [][Next]_vars

\* one request at a time, over the wide range of byte counts
NextSize ==
  \/ StartSized(1)
  \/ AddMiddleware(1)
  \/ AddInsert(1)
  \/ UpdateMiddleware(1)
  \/ UpdateSelect(1)
  \/ UpdateDestroy(1)
  \/ UpdateStmt(1)
  \/ DeleteSelect(1)
  \/ DeleteDestroy(1)
  \/ DeleteStmt(1)

SpecSize == Init /\ [][NextSize]_vars

(* ======================= properties of the router ====================== *)
Done(r) == req[r].pc = "done"

Called(r, c) == \E i \in 1..Len(req[r].calls) : req[r].calls[i] = c

FailedCalls ==
  {"put_failed", "select_failed", "destroy_failed", "insert_failed",
   "update_failed", "delete_failed"}

\* no blob-store or SQL call of request r failed
NoFailure(r) == \A c \in FailedCalls : ~Called(r, c)

\* the blob a row's file_url points at
BlobOf(row) == BlobKey(DerivedPublicId(row.file_url))

Dangling(i) ==
  i \in DOMAIN table /\ table[i].file_url # <<>> /\ BlobOf(table[i]) \notin store

\* the step taken is a step of request r, already started
StepOf(r) == req[r].pc # "idle" /\ req'[r] # req[r]

\* C1: an update answered 404 (its id has no row) made no blob upload, no
\* blob destroy and no row change, the upload middleware included.
C1_Update404NoMutation ==
  \A r \in Reqs :
    (req[r].kind = "update" /\ Done(r) /\ req[r].status = 404)
      => /\ ~Called(r, "put")
         /\ ~Called(r, "destroy")
         /\ ~Called(r, "update")

\* C2: of two deletes of the same id that both started while the row
\* existed and whose calls all succeeded, exactly one answers 200 and the
\* other 404, and neither answers 500.
C2_ConcurrentDeletes ==
  \A r1, r2 \in Reqs :
    (/\ r1 < r2
     /\ req[r1].kind = "delete" /\ req[r2].kind = "delete"
     /\ req[r1].id = req[r2].id
     /\ req[r1].existed /\ req[r2].existed
     /\ Done(r1) /\ Done(r2)
     /\ NoFailure(r1) /\ NoFailure(r2))
      => \/ req[r1].status = 200 /\ req[r2].status = 404
         \/ req[r1].status = 404 /\ req[r2].status = 200

\* a delete failed once its row had been removed
DeleteFailedAfterRowRemoved ==
  \E r \in Reqs :
    req[r].kind = "delete" /\ req[r].status = 500 /\ Called(r, "delete")

\* C3 (as stated): in every reachable state every row with a non-null
\* file_url refers to a blob present in the store, unless a delete failed
\* after its row was removed.
C3_RowsHaveBlobs ==
  DeleteFailedAfterRowRemoved \/ \A i \in DOMAIN table : ~Dangling(i)

\* request r has destroyed the blob of row i and has not executed its
\* UPDATE or DELETE statement (in flight, or its statement failed)
DestroyPending(r, i) ==
  /\ req[r].kind \in {"update", "delete"}
  /\ req[r].id = i
  /\ Called(r, "destroy")
  /\ ~Called(r, "update") /\ ~Called(r, "delete")

\* C3 (amended): in every reachable state every row with a non-null
\* file_url refers to a blob present in the store, unless some
\* update-with-file or delete request on that row has destroyed the row's
\* blob and has not executed its UPDATE or DELETE statement.
C3_RowsHaveBlobsUnlessDestroyPending ==
  \A i \in DOMAIN table :
    Dangling(i) => \E r \in Reqs : DestroyPending(r, i)

\* an update destroyed the old blob, its UPDATE failed, and the row is left
\* pointing at the destroyed blob after the request ended
C3_Witness ==
  \E r \in Reqs :
    /\ req[r].kind = "update" /\ Done(r) /\ req[r].status = 500
    /\ Called(r, "update_failed")
    /\ Dangling(req[r].id)

\* the size string the specification gives for a byte count
ClaimedSize(bytes) ==
  IF bytes = Missing THEN "Unknown size" ELSE ToFixed2(bytes) \o " MB"

\* C4: when an update with a new file answers 200, the blob the row
\* referenced before is gone from the store and the row holds the new
\* blob's file_url, size and (where the column exists) public_id.
C4_UpdateWithFileReplacesBlob ==
  [][\A r \in Reqs :
       (/\ StepOf(r) /\ req'[r].pc = "done"
        /\ req[r].kind = "update" /\ req[r].file # NoFile
        /\ req'[r].status = 200)
         => /\ BlobOf(req[r].existing) \notin store'
            /\ req[r].id \in DOMAIN table'
            /\ table'[req[r].id].file_url = req[r].file.path
            /\ table'[req[r].id].size = ClaimedSize(req[r].file.size)
            /\ (variant = "part000"
                  => table'[req[r].id].public_id = req[r].file.filename)]_vars

\* row new differs from row old in type, title and description at most
SameButScalars(old, new) ==
  [new EXCEPT !.type = old.type, !.title = old.title,
              !.description = old.description] = old

\* C5: no step of an update without a file changes the blob store, adds or
\* removes a row, or changes anything but type, title and description of
\* the row it names; the request makes no put and no destroy call.
C5_UpdateWithoutFileFrame ==
  [][\A r \in Reqs :
       (StepOf(r) /\ req[r].kind = "update" /\ req[r].upload = NoUpload)
         => /\ store' = store
            /\ DOMAIN table' = DOMAIN table
            /\ \A i \in DOMAIN table :
                 /\ i # req[r].id => table'[i] = table[i]
                 /\ SameButScalars(table[i], table'[i])
            /\ ~\E i \in 1..Len(req'[r].calls) :
                  req'[r].calls[i] \in {"put", "put_failed", "destroy",
                                        "destroy_failed"}]_vars

\* an update without a file answered 200 with the row, whose scalar fields
\* are the request's
C5_Witness ==
  \E r \in Reqs :
    /\ req[r].kind = "update" /\ req[r].upload = NoUpload
    /\ Done(r) /\ req[r].status = 200 /\ req[r].row # NoRow
    /\ req[r].id \in DOMAIN table
    /\ table[req[r].id].title = req[r].body.title
    /\ table[req[r].id].title # req[r].existing.title
    /\ table[req[r].id].file_url = req[r].existing.file_url

\* C6: an add whose file has a MIME type outside the allow-list leaves no
\* new blob in the store and no new row in the table.
C6_DisallowedMimeNoUpload ==
  \A r \in Reqs :
    (/\ req[r].kind = "add" /\ Done(r)
     /\ req[r].upload # NoUpload
     /\ req[r].upload.mimetype \notin AllowedMimes)
      => ~Called(r, "put") /\ ~Called(r, "insert")

\* C7: the size stored by add and by update-with-file is the byte count
\* over 1,048,576 with two decimals and " MB" for every known byte count,
\* 0 included, and "Unknown size" exactly when the byte count is missing.
C7_SizeString ==
  \A r \in Reqs :
    (/\ req[r].kind \in {"add", "update"} /\ Done(r)
     /\ req[r].status = 200 /\ req[r].file # NoFile /\ req[r].row # NoRow)
      => req[r].row.size = ClaimedSize(req[r].file.size)

\* C8: every response of an update other than 500 is a 404 or a 200 that
\* carries the updated row.
C8_UpdateResponses ==
  \A r \in Reqs :
    (req[r].kind = "update" /\ Done(r))
      => \/ req[r].status = 500
         \/ req[r].status = 404
         \/ req[r].status = 200 /\ req[r].row # NoRow

StatementCalls == {"update", "update_failed", "delete", "delete_failed"}

\* C9: in update-with-file and delete, a request that reaches its UPDATE or
\* DELETE for a row with an old blob has made its destroy call before; the
\* step in which the destroy call fails answers 500 and leaves the table
\* as it is, and the request never executes its statement.
C9_DestroyBeforeStatement ==
  [][\A r \in Reqs :
       (StepOf(r) /\ req[r].kind \in {"update", "delete"})
         => /\ (req[r].pc = "stmt"
                  /\ (req[r].kind = "update" => req[r].file # NoFile)
                  /\ HasOldBlob(variant, req[r].existing))
                 => /\ Called(r, "destroy")
                    /\ ~Called(r, "destroy_failed")
            /\ (req'[r].calls # req[r].calls
                  /\ req'[r].calls[Len(req'[r].calls)] = "destroy_failed")
                 => /\ req'[r].pc = "done" /\ req'[r].status = 500
                    /\ table' = table
            /\ Called(r, "destroy_failed")
                 => table' = table /\ req'[r].calls = req[r].calls]_vars

\* a destroy call failed: the request answered 500 and the row is the one
\* it read
C9_Witness ==
  \E r \in Reqs :
    /\ Called(r, "destroy_failed") /\ Done(r) /\ req[r].status = 500
    /\ req[r].id \in DOMAIN table
    /\ table[req[r].id] = req[r].existing
    /\ BlobOf(req[r].existing) \in store

\* C10: when no request is in flight and no call has failed, every blob in
\* the store is referenced by exactly one row.
C10_NoOrphanBlobs ==
  (/\ \A r \in Reqs : req[r].pc \in {"idle", "done"}
   /\ \A r \in Reqs : NoFailure(r))
    => \A k \in store :
         Cardinality({i \in DOMAIN table : BlobOf(table[i]) = k}) = 1

====
